---- MODULE Spec2Model ----
(***************************************************************************)
(* A model of xarray_events.EventsAccessor: a Dataset accessor that        *)
(* attaches an events DataFrame to the Dataset's attrs (load) and selects  *)
(* on Dataset dimensions and DataFrame columns in one call (sel).          *)
(*                                                                         *)
(* The Dataset is the record ds = [dims, coords, attrs]; a DataFrame is a  *)
(* record [columns, rows], a row being [index, data].  Python values are   *)
(* tagged records (Num, Str, NaN, List, Lambda), because the code          *)
(* dispatches on the runtime type of a constraint's value.                 *)
(***************************************************************************)
EXTENDS Integers, Sequences, FiniteSets, TLC

VARIABLES
    ds,      \* self._ds: the Dataset the accessor holds
    loaded,  \* the DataFrame most recently attached by load (history)
    call     \* the call in progress, as its caller sees it when it ends

vars == <<ds, loaded, call>>

\* Numbers that constraints and coordinate labels range over: 1..MaxVal.
MaxVal == 2

-----------------------------------------------------------------------------
(* Python values *)

Num(n) == [kind |-> "num", n |-> n]
Str(s) == [kind |-> "str", s |-> s]
NaN == [kind |-> "nan"]
List(items) == [kind |-> "list", items |-> items]
Lambda(f) == [kind |-> "callable", f |-> f]
None == [kind |-> "None"]

\* isinstance(v, collections.abc.Collection): a list is one, and so is a str
\* (it has __len__, __iter__ and __contains__).
IsCollection(v) == v.kind \in {"list", "str"}

\* isinstance(v, collections.abc.Callable)
IsCallable(v) == v.kind = "callable"

-----------------------------------------------------------------------------
(* DataFrames *)

Row(i, data) == [index |-> i, data |-> data]

DataFrame(columns, rows) == [columns |-> columns, rows |-> rows]

\* df[k]: the column as a sequence of cells
Column(df, k) == [i \in 1..Len(df.rows) |-> df.rows[i].data[k]]

\* df[mask].reset_index(drop=True): the rows kept are renumbered from 0
BoolIndexRenumbered(df, mask) ==
    LET n == Len(df.rows)
        idx == SelectSeq([i \in 1..n |-> i], LAMBDA i: mask[i])
    IN  [df EXCEPT !.rows = [j \in 1..Len(idx) |->
                                Row(j - 1, df.rows[idx[j]].data)]]

\* df[mask]: the rows whose mask entry is true, in order, index labels kept
BoolIndex(df, mask) ==
    LET n == Len(df.rows)
        idx == SelectSeq([i \in 1..n |-> i], LAMBDA i: mask[i])
    IN  [df EXCEPT !.rows = [j \in 1..Len(idx) |-> df.rows[idx[j]]]]

\* one element of Series.isin(values): a missing value matches a missing value
IsIn(cell, values) ==
    \E i \in 1..Len(values) :
        \/ cell.kind = "nan" /\ values[i].kind = "nan"
        \/ cell.kind # "nan" /\ cell = values[i]

\* one element of Series == v: a missing value equals nothing
Eq(cell, v) == cell.kind # "nan" /\ cell = v

\* The callables of the model, applied to one cell:
\*   gt1  is  lambda v: v > 1      isna  is  lambda v: v.isna()
Pred(f, cell) ==
    CASE f = "gt1" -> cell.kind = "num" /\ cell.n > 1
      [] f = "isna" -> cell.kind = "nan"

\* v > 1 on a column holding text raises TypeError
PredRaises(f, col) == f = "gt1" /\ \E i \in 1..Len(col) : col[i].kind = "str"

\* Series.where(cond): the cell where cond holds, a missing value elsewhere
Where(col, f) == [i \in 1..Len(col) |-> IF Pred(f, col[i]) THEN col[i] ELSE NaN]

-----------------------------------------------------------------------------
(* EventsAccessor._filter_events *)

Result(err, df) == [err |-> err, df |-> df]

\* if isinstance(v, Collection): events = events[events[k].isin(v)]
\* Series.isin refuses a str ("only list-like objects are allowed").
CollectionBranch(df, k, v) ==
    IF ~IsCollection(v) THEN Result("", df)
    ELSE IF v.kind = "str" THEN Result("TypeError", df)
    ELSE LET col == Column(df, k)
         IN  Result("", BoolIndex(df, [i \in 1..Len(col) |-> IsIn(col[i], v.items)]))

\* if isinstance(v, Callable): events = events[events[k].isin(events[k].where(v))]
\* else:                       events = events[events[k] == v]
\* Series == list compares element by element and raises ValueError when the
\* lengths differ.
CallableElseBranch(df, k, v) ==
    LET col == Column(df, k)
        n == Len(col)
    IN  IF IsCallable(v)
        THEN IF PredRaises(v.f, col) THEN Result("TypeError", df)
             ELSE Result("", BoolIndex(df, [i \in 1..n |-> IsIn(col[i], Where(col, v.f))]))
        ELSE IF v.kind = "list"
        THEN IF Len(v.items) # n THEN Result("ValueError", df)
             ELSE Result("", BoolIndex(df, [i \in 1..n |-> Eq(col[i], v.items[i])]))
        ELSE Result("", BoolIndex(df, [i \in 1..n |-> Eq(col[i], v)]))

\* One iteration of the loop: the two if statements in sequence, each storing
\* its table in attrs['_events'] before the next one runs.
FilterStep(df, k, v) ==
    LET a == CollectionBranch(df, k, v)
    IN  IF a.err # "" THEN a ELSE CallableElseBranch(a.df, k, v)

\* for k, v in constraints.items(), in the order `order`; an exception leaves
\* the table as the steps before it stored it.
RECURSIVE FilterEvents(_, _, _)
FilterEvents(df, order, constraints) ==
    IF order = <<>> THEN Result("", df)
    ELSE LET r == FilterStep(df, Head(order), constraints[Head(order)])
         IN  IF r.err # "" THEN r
             ELSE FilterEvents(r.df, Tail(order), constraints)

\* The dict handed to _filter_events is built by iterating a set, whose order
\* is not defined: every order of its keys is possible.
Orders(S) ==
    {o \in [1..Cardinality(S) -> S] : \A i, j \in 1..Cardinality(S) : o[i] = o[j] => i = j}

-----------------------------------------------------------------------------
(* xr.Dataset *)

Dataset(dims, coords, attrs) == [dims |-> dims, coords |-> coords, attrs |-> attrs]

\* Dataset.assign_attrs(_events = df): a new Dataset with that attribute set
AssignAttrs(d, df) == [d EXCEPT !.attrs = ("_events" :> df) @@ d.attrs]

\* a label-based indexer the Dataset's index accepts (method = None)
Selectable(d, k, v) ==
    \/ v.kind = "num" /\ v.n \in d.coords[k]
    \/ /\ v.kind = "list"
       /\ \A i \in 1..Len(v.items) : v.items[i].kind = "num" /\ v.items[i].n \in d.coords[k]

\* xr.Dataset.sel(args, method, tolerance, drop) with its default method,
\* tolerance and drop: KeyError for a label that is not in the index; a scalar
\* label collapses its dimension, a list keeps it.  attrs are carried over.
DatasetSel(d, args) ==
    IF \E k \in DOMAIN args : ~Selectable(d, k, args[k])
    THEN [err |-> "KeyError", ds |-> d]
    ELSE [err |-> "",
          ds |-> [d EXCEPT
                    !.dims = {k \in d.dims : k \notin DOMAIN args \/ args[k].kind # "num"},
                    !.coords = [k \in DOMAIN d.coords |->
                                  IF k \notin DOMAIN args THEN d.coords[k]
                                  ELSE IF args[k].kind = "num" THEN {args[k].n}
                                  ELSE {args[k].items[i].n : i \in 1..Len(args[k].items)}]]]

-----------------------------------------------------------------------------
(* EventsAccessor.sel *)

Restrict(f, S) == [k \in S |-> f[k]]

\* {k: constraints[k] for k in set(constraints) & d}
DimConstraints(constraints, d) == Restrict(constraints, DOMAIN constraints \cap d)

\* {k: constraints[k] for k in (set(constraints) & e) - d}, d being the
\* dimensions of self._ds when sel is called
EventConstraintsNotDims(constraints, e) ==
    Restrict(constraints, (DOMAIN constraints \cap e) \ ds.dims)

\* {k: constraints[k] for k in set(constraints) & e}
EventConstraints(constraints, e) == Restrict(constraints, DOMAIN constraints \cap e)

\* What the caller sees of a call of sel: where it stopped (stage), how
\* (outcome), the Dataset it left in self._ds, and what each collaborator got.
SelCall(stage, outcome, d0, d1, indexers, kwargs, constraints, e, nativeArgs, filterArgs) ==
    [op |-> "sel", stage |-> stage, outcome |-> outcome, pre |-> d0, ds |-> d1,
     indexers |-> indexers, kwargs |-> kwargs, constraints |-> constraints,
     d |-> d0.dims, e |-> e, nativeArgs |-> nativeArgs, filterArgs |-> filterArgs]

\* Every way a call sel(indexers, **kwargs) on Dataset d0 can end.
SelOutcomes(d0, indexers, kwargs) ==
    IF indexers = None
    THEN \* {**indexers, **indexers_kwargs}: None is not a mapping
         {SelCall("merge", "TypeError", d0, d0, indexers, kwargs, <<>>, {}, <<>>, <<>>)}
    ELSE
    LET constraints == kwargs @@ indexers
        d == d0.dims
    IN  IF DOMAIN d0.attrs # {} /\ "_events" \notin DOMAIN d0.attrs
        THEN \* self._ds.attrs['_events'] on attrs without that key
             {SelCall("columns", "KeyError", d0, d0, indexers, kwargs, constraints, {},
                      <<>>, <<>>)}
        ELSE
        LET e == IF DOMAIN d0.attrs # {} THEN d0.attrs["_events"].columns ELSE {}
            nativeArgs == DimConstraints(constraints, d)
            native == DatasetSel(d0, nativeArgs)
        IN  IF native.err # ""
            THEN {SelCall("native", native.err, d0, d0, indexers, kwargs, constraints, e,
                          nativeArgs, <<>>)}
            ELSE
            LET d1 == native.ds
                filterArgs == EventConstraints(constraints, e)
            IN  {LET r == IF order = <<>> THEN Result("", None)
                          ELSE FilterEvents(d1.attrs["_events"], order, filterArgs)
                     d2 == IF order = <<>> THEN d1
                           ELSE [d1 EXCEPT !.attrs["_events"] = r.df]
                 IN  SelCall(IF r.err = "" THEN "done" ELSE "filter",
                             IF r.err = "" THEN "ok" ELSE r.err,
                             d0, d2, indexers, kwargs, constraints, e, nativeArgs, filterArgs)
                 : order \in Orders(DOMAIN filterArgs)}

-----------------------------------------------------------------------------
(* EventsAccessor.load *)

LoadCall(outcome, message, d0, d1, source) ==
    [op |-> "load", outcome |-> outcome, message |-> message, pre |-> d0, ds |-> d1,
     source |-> source]

\* _from_DataFrame
FromDataFrame(d0, source) == LoadCall("ok", "", d0, AssignAttrs(d0, source.df), source)

\* _from_Path(self, p): its body reads `source`, a name bound neither in the
\* function nor in the module, so evaluating source.suffix raises NameError.
FromPath(d0, source) == LoadCall("NameError", "source", d0, d0, source)

\* load: dispatch on the type of source; the TypeError's message holds
\* type(source).__name__
LoadOutcome(d0, source) ==
    CASE source.type = "DataFrame" -> FromDataFrame(d0, source)
      [] source.type = "Path" -> FromPath(d0, source)
      [] source.type = "str" -> FromPath(d0, [source EXCEPT !.type = "Path"])
      [] OTHER -> LoadCall("TypeError", source.type, d0, d0, source)

-----------------------------------------------------------------------------
(* The inputs of the model *)

Names == {"time", "x", "label", "other"}

Values ==
    {Num(n) : n \in 1..MaxVal}
    \cup {Str("A")}
    \cup {List(<<Num(1), Num(2)>>), List(<<Num(2), Num(1)>>), List(<<Str("A")>>)}
    \cup {Lambda("gt1"), Lambda("isna")}

Dicts == {<<>>} \cup {n :> v : n \in Names, v \in Values}

Frame1 ==
    DataFrame({"x", "label"},
              << Row(0, [x |-> Num(2), label |-> Str("A")]),
                 Row(1, [x |-> Num(1), label |-> Str("B")]),
                 Row(2, [x |-> NaN,    label |-> Str("A")]) >>)

Frame2 ==
    DataFrame({"time", "x"},
              << Row(0, [time |-> Num(1), x |-> Num(1)]),
                 Row(1, [time |-> Num(2), x |-> Num(2)]),
                 Row(2, [time |-> Num(2), x |-> Num(1)]) >>)

Sources ==
    {[type |-> "DataFrame", df |-> f, suffix |-> ""] : f \in {Frame1, Frame2}}
    \cup {[type |-> t, df |-> None, suffix |-> s] : t \in {"Path", "str"}, s \in {".csv", ".txt"}}
    \cup {[type |-> "int", df |-> None, suffix |-> ""]}

NoCall == [op |-> "none"]

-----------------------------------------------------------------------------
(* The state machine *)

\* __init__(ds): a Dataset with one dimension and no events; its attrs are
\* empty or hold some other attribute.
Init ==
    /\ \E attrs \in {<<>>, "title" :> Str("A")} :
           ds = Dataset({"time"}, [time |-> 1..MaxVal], attrs)
    /\ loaded = None
    /\ call = NoCall

Load ==
    /\ call = NoCall
    /\ \E source \in Sources :
          LET c == LoadOutcome(ds, source)
          IN  /\ call' = c
              /\ ds' = c.ds
              /\ loaded' = IF c.outcome = "ok" THEN source.df ELSE loaded

Sel ==
    /\ call = NoCall
    /\ \E indexers \in Dicts \cup {None}, kwargs \in Dicts :
          \E c \in SelOutcomes(ds, indexers, kwargs) :
              /\ call' = c
              /\ ds' = c.ds
    /\ UNCHANGED loaded

\* The call returns or raises to its caller.
Return ==
    /\ call # NoCall
    /\ call' = NoCall
    /\ UNCHANGED <<ds, loaded>>

Next == Load \/ Sel \/ Return

Spec == Init /\ [][Next]_vars

-----------------------------------------------------------------------------
(* Vocabulary of the properties *)

HasTable(d) == "_events" \in DOMAIN d.attrs

Table(d) == d.attrs["_events"]

\* The constraints a call was given, named arguments over the mapping's.
Given(c) == c.kwargs @@ (IF c.indexers = None THEN <<>> ELSE c.indexers)

\* The rows of df whose k cell satisfies P, in order.
RowsWhere(df, k, P(_)) == SelectSeq(df.rows, LAMBDA r : P(r.data[k]))

Member(cell, items) == \E i \in 1..Len(items) : cell = items[i]

\* a holds rows of b only, unchanged and in b's order, under b's columns
IsSubTable(a, b) ==
    /\ a.columns = b.columns
    /\ Len(a.rows) <= Len(b.rows)
    /\ \A i \in 1..Len(a.rows) : \E j \in 1..Len(b.rows) : a.rows[i] = b.rows[j]
    /\ \A i, j \in 1..Len(a.rows) : i < j => a.rows[i].index < a.rows[j].index

\* sel reached the Filter Engine with the single constraint k
OnlyFilter(k) ==
    /\ call.op = "sel"
    /\ HasTable(call.pre)
    /\ call.stage \in {"filter", "done"}
    /\ DOMAIN call.filterArgs = {k}

\* k names a dimension and a column, the call was given a constraint on it
\* and got past merging its arguments
Overlap(k) ==
    /\ call.op = "sel"
    /\ HasTable(call.pre)
    /\ call.stage # "merge"
    /\ k \in DOMAIN Given(call)
    /\ k \in call.pre.dims \cap Table(call.pre).columns

-----------------------------------------------------------------------------
(* The properties *)

\* C1: with dimension names D and column names E disjoint, every call of
\* sel, however its constraints are given (mapping, named arguments with
\* indexers left at its default, or both), hands the native selection exactly
\* the constraints named in D and the Filter Engine exactly those named in E.
\* (A call the native selection itself rejects is left out.)
C1_PartitionsConstraints ==
    ( /\ call.op = "sel"
      /\ HasTable(call.pre)
      /\ call.pre.dims \cap Table(call.pre).columns = {}
      /\ call.stage # "native" )
    => /\ call.stage \in {"filter", "done"}
       /\ call.nativeArgs = Restrict(Given(call), DOMAIN Given(call) \cap call.pre.dims)
       /\ call.filterArgs =
              Restrict(Given(call), DOMAIN Given(call) \cap Table(call.pre).columns)

\* C2: a constraint whose value is a list leaves exactly the rows of the
\* pre-call table whose cell is an element of the list.
C2_MembershipKeepsElements ==
    \A k \in Names :
        (OnlyFilter(k) /\ call.filterArgs[k].kind = "list")
        => /\ call.outcome = "ok"
           /\ Table(ds).rows =
                  RowsWhere(Table(call.pre), k,
                            LAMBDA cell : Member(cell, call.filterArgs[k].items))

\* C3: a constraint whose value is a scalar, a number or a text, leaves
\* exactly the rows of the pre-call table whose cell equals it.
C3_ScalarKeepsEqual ==
    \A k \in Names :
        (OnlyFilter(k) /\ call.filterArgs[k].kind \in {"num", "str"})
        => /\ call.outcome = "ok"
           /\ Table(ds).rows =
                  RowsWhere(Table(call.pre), k, LAMBDA cell : cell = call.filterArgs[k])

\* C4: a constraint whose value is a predicate (one that does not raise on
\* the column) leaves exactly the rows of the pre-call table on whose cell
\* the predicate is true; a row with a missing cell on which it is not true
\* is removed.
C4_PredicateKeepsTrue ==
    \A k \in Names :
        ( /\ OnlyFilter(k)
          /\ call.filterArgs[k].kind = "callable"
          /\ ~PredRaises(call.filterArgs[k].f, Column(Table(call.pre), k)) )
        => /\ call.outcome = "ok"
           /\ Table(ds).rows =
                  RowsWhere(Table(call.pre), k,
                            LAMBDA cell : Pred(call.filterArgs[k].f, cell))

\* C5: the attached table always holds rows of the DataFrame that load
\* attached, unchanged, and after a call of sel it holds rows of the table
\* the call started from: no row is added, changed or renumbered and the
\* row count never grows.  Each constraint filters what the earlier ones
\* left: when sel returns, a row that fails any of its numeric equality
\* constraints is gone, whatever the order they were applied in.
C5_OnlyRemovesRows ==
    /\ (HasTable(ds) /\ loaded # None) => IsSubTable(Table(ds), loaded)
    /\ (call.op = "sel" /\ HasTable(call.pre))
       => /\ HasTable(ds)
          /\ IsSubTable(Table(ds), Table(call.pre))
    /\ (call.op = "sel" /\ HasTable(call.pre) /\ call.outcome = "ok")
       => \A k \in DOMAIN call.filterArgs :
              call.filterArgs[k].kind = "num"
              => \A i \in 1..Len(Table(ds).rows) :
                     Table(ds).rows[i].data[k] = call.filterArgs[k]

\* C5 witness: a call of sel with two column constraints returned with a
\* table that lost some rows and kept some.
C5_Witness ==
    /\ call.op = "sel"
    /\ call.outcome = "ok"
    /\ HasTable(call.pre)
    /\ Cardinality(DOMAIN call.filterArgs) = 2
    /\ Len(Table(ds).rows) > 0
    /\ Len(Table(ds).rows) < Len(Table(call.pre).rows)

\* C6: after a call of sel that returned, whose constraints are scalars and
\* lists on columns of the table, the same call again returns too and leaves
\* the same table.
C6_SelIdempotent ==
    ( /\ call.op = "sel"
      /\ call.outcome = "ok"
      /\ HasTable(call.pre)
      /\ DOMAIN call.constraints # {}
      /\ \A k \in DOMAIN call.constraints :
             /\ k \in Table(call.pre).columns
             /\ call.constraints[k].kind \in {"num", "str", "list"} )
    => \A c \in SelOutcomes(ds, call.indexers, call.kwargs) :
           /\ c.outcome = call.outcome
           /\ c.ds.attrs = ds.attrs

\* C7: a call of sel that fails leaves the Dataset, array view and table,
\* exactly as it was before the call.
C7_SelAtomic ==
    (call.op = "sel" /\ call.outcome # "ok") => ds = call.pre

\* C8: with no table attached, whether attrs is empty or holds other
\* attributes, sel takes E as empty: it fails only if the native selection
\* does, hands the native selection the constraints named in D, filters
\* nothing and drops the other constraints.  (A call that fails while merging
\* its arguments is left out.)
C8_NoTableIsEmptyColumns ==
    (call.op = "sel" /\ ~HasTable(call.pre) /\ call.stage # "merge")
    => /\ call.stage \in {"native", "done"}
       /\ call.e = {}
       /\ call.nativeArgs = Restrict(Given(call), DOMAIN Given(call) \cap call.pre.dims)
       /\ call.filterArgs = <<>>
       /\ ds.attrs = call.pre.attrs

\* C9: load raises exactly when source is neither a DataFrame, a Path nor a
\* str; the error then names the type and attrs is unchanged; a DataFrame is
\* attached, replacing the table before it.
C9_LoadRaisesOnlyOnOtherTypes ==
    (call.op = "load")
    => /\ (call.outcome # "ok") <=> (call.source.type \notin {"DataFrame", "Path", "str"})
       /\ (call.source.type \notin {"DataFrame", "Path", "str"})
          => (call.message = call.source.type /\ ds.attrs = call.pre.attrs)
       /\ (call.source.type = "DataFrame")
          => (HasTable(ds) /\ Table(ds) = call.source.df)

\* C10 as stated: a constraint whose name is both a dimension and a column
\* is handed to the native selection only, never to the Filter Engine.
\* (Calls that fail while merging their arguments route nothing and are
\* left out.)
C10_OverlapRoutedToDimsOnly ==
    \A k \in Names :
        Overlap(k)
        => /\ k \in DOMAIN call.nativeArgs
           /\ k \notin DOMAIN call.filterArgs

\* C10 amended: in a call of sel that gets past merging its arguments, a
\* constraint whose name is both a dimension and a column is handed to the
\* native selection and, once that selection has returned, to the Filter
\* Engine too; when sel returns and the value is a number, every row left in
\* the table has that number in the column.
C10_OverlapRoutedToBoth ==
    \A k \in Names :
        Overlap(k)
        => /\ call.stage \in {"native", "filter", "done"}
           /\ k \in DOMAIN call.nativeArgs
           /\ call.nativeArgs[k] = Given(call)[k]
           /\ call.stage \in {"filter", "done"}
              => (k \in DOMAIN call.filterArgs /\ call.filterArgs[k] = Given(call)[k])
           /\ (call.stage = "done" /\ Given(call)[k].kind = "num")
              => \A i \in 1..Len(Table(ds).rows) :
                     Table(ds).rows[i].data[k] = Given(call)[k]

\* C10 witness: sel returned after a constraint on a name that is both a
\* dimension and a column narrowed the array and removed rows of the table.
C10_Witness ==
    \E k \in Names :
        /\ Overlap(k)
        /\ call.outcome = "ok"
        /\ k \notin ds.dims
        /\ Len(Table(ds).rows) > 0
        /\ Len(Table(ds).rows) < Len(Table(call.pre).rows)

====
